---- MODULE Spec2Model ----
(***************************************************************************)
(* Model of src/pdq-worker.js: a Cloudflare Worker that proxies the RRC    *)
(* Production Data Query portal.  One inbound request runs the handler     *)
(* `fetch`, which validates the caller's parameters, acquires an upstream  *)
(* session (getSession), submits a form (searchLeases / getProduction) and *)
(* scrapes the returned HTML.                                              *)
(*                                                                         *)
(* Every `await fetch(...)` of the source is a suspension point, so the    *)
(* handler is split into one action per segment between two awaits.        *)
(* Strings the code inspects character by character (the name parameter,   *)
(* table cells, lease fields) are sequences of one-character strings;      *)
(* HTML documents are sequences of the fragments the regular expressions   *)
(* of the source recognise.                                                *)
(***************************************************************************)
EXTENDS Integers, Sequences, FiniteSets, TLC

VARIABLES
    pc,        \* pc[r]: position of request r's handler
    req,       \* req[r]: the inbound request (method, path, query parameters)
    sess,      \* sess[r]: the Session returned by getSession, << >> before
    calls,     \* calls[r]: outbound fetch calls issued so far, in order
    outcomes,  \* outcomes[r]: what each outbound call returned, in order
    resp,      \* resp[r]: the Response returned by the handler, << >> before
    html,      \* document handed to an extractor (extraction specifications)
    wellType,  \* `type` handed to the production extractor
    out        \* what the extractor returned, << >> before

vars == <<pc, req, sess, calls, outcomes, resp, html, wellType, out>>

reqVars == <<pc, req, sess, calls, outcomes, resp>>
fxVars == <<html, wellType, out>>

----------------------------------------------------------------------------
(* Bounds of the model *)

\* Longest list of Set-Cookie headers on the session entry response
MaxCookies == 2

\* Requests whose handlers run in the base specification
Reqs == {1}

----------------------------------------------------------------------------
(* JavaScript values *)

\* null / undefined and a present value v (what searchParams.get returns)
Null == << >>
Some(v) == <<v>>

Min(a, b) == IF a < b THEN a ELSE b

\* String.prototype.trim on a sequence of characters
RECURSIVE TrimStart(_)
TrimStart(s) ==
    IF s # << >> /\ Head(s) = " " THEN TrimStart(Tail(s)) ELSE s

RECURSIVE TrimEnd(_)
TrimEnd(s) ==
    IF s # << >> /\ s[Len(s)] = " " THEN TrimEnd(SubSeq(s, 1, Len(s) - 1)) ELSE s

Trim(s) == TrimEnd(TrimStart(s))

\* String.prototype.toUpperCase over the model's alphabet
UpperChar(c) == IF c = "a" THEN "A" ELSE IF c = "b" THEN "B" ELSE c
ToUpperCase(s) == [i \in 1..Len(s) |-> UpperChar(s[i])]

\* p || d for an optional character-sequence parameter
OrElseSeq(p, d) == IF p = Null \/ p[1] = << >> THEN d ELSE p[1]

\* p || d for an optional string parameter
OrElseStr(p, d) == IF p = Null \/ p[1] = "" THEN d ELSE p[1]

\* !p for an optional string parameter
Falsy(p) == p = Null \/ p[1] = ""

----------------------------------------------------------------------------
(* Inbound requests *)

Methods == {"GET", "OPTIONS"}
Paths == {"/search", "/production", "/other"}
NameParams == {Null, Some(<< >>), Some(<<" ">>), Some(<<"a">>), Some(<<" ", "a", " ">>)}
DistrictParams == {Null, Some(""), Some("08")}
LeaseParams == {Null, Some(""), Some("26086")}
TypeParams == {Null, Some(""), Some("Oil"), Some("Gas"), Some("Water")}

\* startMonth, startYear, endMonth, endYear of the query string, if the caller
\* sends them
RangeParams ==
    {Null, Some([startMonth |-> "06", startYear |-> "2020", endMonth |-> "07", endYear |-> "2021"])}

Requests ==
    [method : Methods, path : Paths, name : NameParams,
     district : DistrictParams, lease : LeaseParams, type : TypeParams,
     range : RangeParams]

\* the CORS header set attached to every response
cors ==
    [allowOrigin |-> "*", allowMethods |-> "GET, OPTIONS", allowHeaders |-> "Content-Type"]

CatchStatus == 500

\* jr(data, status, cors): JSON body, status, CORS headers plus Content-Type
jr(data, status, c) ==
    [status |-> status, body |-> data, headers |-> c, contentType |-> "application/json"]

\* new Response(null, { headers: cors })
PreflightResponse ==
    [status |-> 200, body |-> [null |-> TRUE], headers |-> cors, contentType |-> ""]

\* variant of nameOf: the name is upper-cased but not trimmed
nameOfUntrimmed(q) == ToUpperCase(OrElseSeq(q.name, << >>))

\* the locals of the handler
nameOf(q) == ToUpperCase(Trim(OrElseSeq(q.name, << >>)))
searchDistrictOf(q) == OrElseStr(q.district, "None Selected")
typeOf(q) == OrElseStr(q.type, "Oil")

----------------------------------------------------------------------------
(* Outbound calls and what the upstream returns *)

\* the cookie string `JSESSIONID=${v}`; the empty string '' is << >>
CookieStr(v) == <<"JSESSIONID", "=", v>>

SessionCall ==
    [kind |-> "session", method |-> "GET", endpoint |-> "leaseSearchAction.do",
     id |-> "", cookie |-> << >>, form |-> << >>]

BuilderCall(s) ==
    [kind |-> "builder", method |-> "GET", endpoint |-> "quickLeaseReportBuilderAction.do",
     id |-> s.id, cookie |-> s.cookie, form |-> << >>]

SubmitCall(endpoint, s, form) ==
    [kind |-> "submit", method |-> "POST", endpoint |-> endpoint,
     id |-> s.id, cookie |-> s.cookie, form |-> <<form>>]

\* fetch rejected (transport failure, e.message = msg) or resolved with a reply
TransportFailure(msg) == [failed |-> TRUE, message |-> msg, reply |-> << >>]
Delivered(rep) == [failed |-> FALSE, message |-> "", reply |-> <<rep>>]

TransportMessages == {"Network connection lost"}

\* Set-Cookie header values of the entry response
CookieHeaders ==
    { [name |-> "lang", value |-> "en"],
      [name |-> "JSESSIONID", value |-> "A"],
      [name |-> "JSESSIONID", value |-> "B"] }

CookieLists == UNION { [1..n -> CookieHeaders] : n \in 0..MaxCookies }

\* session segment of the final redirected URL (resp.url), if any
UrlIds == {Null, Some("B")}

\* body text of the entry response, as the pieces the session regex tells apart
Marker(v) == [kind |-> "marker", value |-> v]
PlainText == [kind |-> "text", value |-> ""]
SessionBodies ==
    { << >>, <<PlainText>>, <<Marker("A")>>, <<PlainText, Marker("B")>>,
      <<Marker("B"), Marker("A")>> }

SessionReplies == [cookies : CookieLists, url : UrlIds, body : SessionBodies]

----------------------------------------------------------------------------
(* getSession *)

\* text.match(/jsessionid=([^";&\s]+)/): the first marker of the body
RECURSIVE BodyMatch(_)
BodyMatch(text) ==
    IF text = << >> THEN Null
    ELSE IF Head(text).kind = "marker" THEN Some(Head(text).value)
    ELSE BodyMatch(Tail(text))

\* c.match(/JSESSIONID=([^;]+)/)
CookieMatch(c) ==
    IF c.name = "JSESSIONID" /\ c.value # "" THEN Some(c.value) ELSE Null

\* the loop over the Set-Cookie headers, leaving at the first match
RECURSIVE CookieScan(_)
CookieScan(cookies) ==
    IF cookies = << >> THEN << >>
    ELSE IF CookieMatch(Head(cookies)) # Null
         THEN CookieStr(CookieMatch(Head(cookies))[1])
    ELSE CookieScan(Tail(cookies))

\* the cookie of the Session: from the headers, else from the body's marker
SessionCookie(rep, m) ==
    IF CookieScan(rep.cookies) # << >> THEN CookieScan(rep.cookies) ELSE CookieStr(m[1])

\* variant of SessionId: the id is the session cookie's value when a header has one
SessionIdCookieFirst(rep, m) ==
    IF CookieScan(rep.cookies) # << >> THEN CookieScan(rep.cookies)[3] ELSE m[1]

\* the id of the Session
SessionId(rep, m) == m[1]

\* getSession after its fetch resolved with rep: throws or returns { id, cookie }
getSession(rep) ==
    LET m == BodyMatch(rep.body)
    IN IF m = Null
       THEN [threw |-> TRUE, message |-> "No session", value |-> << >>]
       ELSE [threw |-> FALSE, message |-> "",
             value |-> <<[id |-> SessionId(rep, m), cookie |-> SessionCookie(rep, m)]>>]

----------------------------------------------------------------------------
(* searchLeases: the lease-search document and its extraction *)

\* the cap of the extraction loop
LeaseCap == 50

Digits == {"0", "1", "2", "3", "4", "5", "6", "7", "8", "9"}

\* every character of s is in set
AllIn(s, set) == \A i \in 1..Len(s) : s[i] \in set

\* character c occurs in s
HasChar(s, c) == \E i \in 1..Len(s) : s[i] = c

\* A lease-search document is the sequence of its `option value="` candidates;
\* a candidate is the text between the separators of the lease regex:
\*   num ^0^ name ^1^ code ^2^ dist ^3^ well "> ( did ): dname <
\* The regex accepts a candidate when every group matches its character class.
LeaseMatches(f) ==
    /\ f.num # << >> /\ AllIn(f.num, Digits)
    /\ f.name # << >> /\ ~HasChar(f.name, "^")
    /\ f.code \in {<<"O">>, <<"G">>}
    /\ f.dist # << >> /\ ~HasChar(f.dist, "^")
    /\ ~HasChar(f.well, "\"")
    /\ f.did # << >> /\ ~HasChar(f.did, ")")
    /\ f.dname # << >> /\ ~HasChar(f.dname, "<")

\* regex.exec(html) with the matcher at lastIndex: index of the next match, 0 for null
RECURSIVE LeaseExec(_, _)
LeaseExec(doc, lastIndex) ==
    IF lastIndex > Len(doc) THEN 0
    ELSE IF LeaseMatches(doc[lastIndex]) THEN lastIndex
    ELSE LeaseExec(doc, lastIndex + 1)

\* variant of NullToEmpty: the placeholder is kept
NullToEmptySkipped(s) == s

\* .replace(/^null$/, '')
NullToEmpty(s) == IF s = <<"n", "u", "l", "l">> THEN << >> ELSE s

\* the object pushed for one match
LeaseRecord(f) ==
    [leaseNumber |-> f.num,
     leaseName   |-> Trim(f.name),
     wellType    |-> IF f.code = <<"O">> THEN "Oil" ELSE "Gas",
     district    |-> Trim(f.dist),
     wellNumber  |-> NullToEmpty(Trim(f.well)),
     displayId   |-> Trim(f.did),
     displayName |-> Trim(f.dname)]

\* variant of LeaseLoopGoesOn: the cap is compared with <=
LeaseLoopGoesOnInclusive(leases) == Len(leases) <= LeaseCap

\* the condition that keeps the while loop going after a match was found
LeaseLoopGoesOn(leases) == Len(leases) < LeaseCap

\* while ((match = regex.exec(html)) !== null && leases.length < 50) push
RECURSIVE LeaseLoop(_, _, _)
LeaseLoop(doc, lastIndex, leases) ==
    LET at == LeaseExec(doc, lastIndex)
    IN IF at = 0 \/ ~LeaseLoopGoesOn(leases) THEN leases
       ELSE LeaseLoop(doc, at + 1, Append(leases, LeaseRecord(doc[at])))

\* the part of searchLeases after the POST resolved with document doc
searchResult(name, doc) ==
    LET leases == LeaseLoop(doc, 1, << >>)
    IN [query |-> name, count |-> Len(leases), leases |-> leases]

\* the form body of the lease-search POST
SearchForm(name, district) ==
    [leaseSearchCriteria |-> "contains", leaseSearchValue |-> name, district |-> district,
     onShoreCounty |-> "None Selected", offShoreArea |-> "None Selected",
     fieldNo |-> "", submit |-> "Submit"]

----------------------------------------------------------------------------
(* Lease-search documents of the model *)

\* Longest generated lease-search document (candidates)
MaxCandidates == 60

\* Longest lease-search document enumerated over every candidate sample
MaxShortDoc == 2

Candidate(num, name, code, dist, well, did, dname) ==
    [num |-> num, name |-> name, code |-> code, dist |-> dist, well |-> well,
     did |-> did, dname |-> dname]

OilLease ==
    Candidate(<<"1", "2">>, <<"A", " ">>, <<"O">>, <<"0", "8">>, <<"1">>,
              <<"0", "8", "-", "1", "2">>, <<"A">>)
GasLease ==
    Candidate(<<"7">>, <<" ", "B">>, <<"G">>, <<"8", "A">>, <<"n", "u", "l", "l">>,
              <<"8", "A", "-", "7">>, <<"B", " ">>)
BlankWell ==
    Candidate(<<"3">>, <<"A">>, <<"O">>, <<"0", "8">>, << >>, <<"3">>, <<"A", "B">>)
BadNumber ==
    Candidate(<<"1", "x">>, <<"A">>, <<"O">>, <<"0", "8">>, <<"1">>, <<"1">>, <<"A">>)
BadCode ==
    Candidate(<<"5">>, <<"A">>, <<"X">>, <<"0", "8">>, <<"1">>, <<"5">>, <<"A">>)
NoLabel ==
    Candidate(<<"6">>, <<"B">>, <<"G">>, <<"0", "8">>, <<"2">>, <<"6">>, << >>)

PaddedNull ==
    Candidate(<<"4">>, <<"A", "B">>, <<"G">>, <<"0", "8">>, <<" ", "n", "u", "l", "l">>,
              <<"4">>, <<"A">>)
PaddedWell ==
    Candidate(<<"9">>, <<"B">>, <<"O">>, <<"0", "8">>, <<" ", "2", " ">>, <<"9">>, <<"B">>)
NullPrefix ==
    Candidate(<<"8">>, <<"B">>, <<"O">>, <<"0", "8">>, <<"n", "u", "l", "l", "2">>,
              <<"8">>, <<"B">>)

CandidateSamples ==
    <<OilLease, BadCode, GasLease, BlankWell, BadNumber, OilLease, NoLabel,
      PaddedNull, PaddedWell, NullPrefix>>

\* the document of n candidates that cycles through the samples from offset k
CycleDoc(n, k) ==
    [i \in 1..n |-> CandidateSamples[((i + k) % Len(CandidateSamples)) + 1]]

\* the document of n candidates of which every ninth does not match
DenseDoc(n) ==
    [i \in 1..n |-> IF i % 9 = 0 THEN BadCode ELSE IF i % 2 = 0 THEN OilLease ELSE GasLease]

Range(s) == { s[i] : i \in 1..Len(s) }

LeaseDocs ==
    { CycleDoc(n, k) : n \in 0..MaxCandidates, k \in 0..(Len(CandidateSamples) - 1) }
    \cup { DenseDoc(n) : n \in 0..MaxCandidates }
    \cup UNION { [1..n -> Range(CandidateSamples)] : n \in 0..MaxShortDoc }

----------------------------------------------------------------------------
(* getProduction: the production document and its extraction *)

\* A production document is the sequence of the pieces the regular expressions
\* of getProduction tell apart: the text `class="DataGrid">` (grid), the text
\* `</TABLE>` (endtable), the text `No Matches` (nomatch), a <TR>..</TR> element
\* with the contents of its <TD> elements (row), and any other text (text).
\* The content of a <TD> is a sequence of: a tag "<b>", the entity "&nbsp;",
\* the comma ",", the blank " ", the word "Message", and other characters.
Piece(kind) == [kind |-> kind, cells |-> << >>]
Row(cells) == [kind |-> "row", cells |-> cells]

\* index of the first piece of that kind at or after from, 0 if none
RECURSIVE FirstPiece(_, _, _)
FirstPiece(doc, kind, from) ==
    IF from > Len(doc) THEN 0
    ELSE IF doc[from].kind = kind THEN from
    ELSE FirstPiece(doc, kind, from + 1)

\* html.match(/class="DataGrid">([\s\S]*?)<\/TABLE>/): the captured group, or null
gridMatch(doc) ==
    LET open == FirstPiece(doc, "grid", 1)
        close == IF open = 0 THEN 0 ELSE FirstPiece(doc, "endtable", open + 1)
    IN IF open = 0 \/ close = 0 THEN Null ELSE Some(SubSeq(doc, open + 1, close - 1))

\* html.includes('No Matches')
IncludesNoMatches(doc) == FirstPiece(doc, "nomatch", 1) # 0

\* s without the members of drop
RECURSIVE Without(_, _)
Without(s, drop) ==
    IF s = << >> THEN << >>
    ELSE IF Head(s) \in drop THEN Without(Tail(s), drop)
    ELSE <<Head(s)>> \o Without(Tail(s), drop)

\* td[1].replace(/<[^>]+>/g, '').replace(/&nbsp;/g, '').replace(/,/g, '').trim()
CleanCell(td) == Trim(Without(Without(Without(td, {"<b>"}), {"&nbsp;"}), {","}))

CleanCells(tds) == [i \in 1..Len(tds) |-> CleanCell(tds[i])]

\* cells.length > 0 && !cells[0].includes('Message')
KeepRow(cells) == Len(cells) > 0 /\ ~HasChar(cells[1], "Message")

\* the loop over the <TR> elements of the grid: the kept rows, cleaned, in order
RECURSIVE RowLoop(_)
RowLoop(content) ==
    IF content = << >> THEN << >>
    ELSE IF Head(content).kind = "row" /\ KeepRow(CleanCells(Head(content).cells))
         THEN <<CleanCells(Head(content).cells)>> \o RowLoop(Tail(content))
    ELSE RowLoop(Tail(content))

DigitValue(c) ==
    CASE c = "0" -> 0 [] c = "1" -> 1 [] c = "2" -> 2 [] c = "3" -> 3 [] c = "4" -> 4
      [] c = "5" -> 5 [] c = "6" -> 6 [] c = "7" -> 7 [] c = "8" -> 8 [] c = "9" -> 9
      [] c \in {"a", "A"} -> 10 [] c \in {"b", "B"} -> 11 [] c \in {"c", "C"} -> 12
      [] c \in {"d", "D"} -> 13 [] c \in {"e", "E"} -> 14 [] c \in {"f", "F"} -> 15

HexDigits == Digits \cup {"a", "b", "c", "d", "e", "f", "A", "B", "C", "D", "E", "F"}

\* the value in that radix of the longest prefix of s made of its digits, after
\* acc; -1 (NaN) if acc is -1 and s starts with none of them
RECURSIVE DigitPrefix(_, _, _, _)
DigitPrefix(s, acc, digits, radix) ==
    IF s = << >> \/ Head(s) \notin digits THEN acc
    ELSE DigitPrefix(Tail(s), (IF acc < 0 THEN 0 ELSE acc) * radix + DigitValue(Head(s)),
                     digits, radix)

\* variant of IntCell: the cell is read one position to the left
IntCellShifted(r, i) ==
    IF i < 1 \/ i > Len(r) THEN 0
    ELSE LET s == TrimStart(r[i])
             neg == s # << >> /\ Head(s) = "-"
             body == IF s # << >> /\ Head(s) \in {"-", "+"} THEN Tail(s) ELSE s
             n == DigitPrefix(body, -1, Digits, 10)
         IN IF n < 0 THEN 0 ELSE IF neg THEN 0 - n ELSE n

\* parseInt(r[i]) || 0 for the cell at 0-based index i: a missing cell, NaN and 0
\* give 0; parseInt skips leading blanks, takes a sign, reads hexadecimal after
\* a 0x prefix and decimal otherwise, and ignores what follows the digits
IntCell(r, i) ==
    IF i + 1 > Len(r) THEN 0
    ELSE LET s == TrimStart(r[i + 1])
             neg == s # << >> /\ Head(s) = "-"
             body == IF s # << >> /\ Head(s) \in {"-", "+"} THEN Tail(s) ELSE s
             hex == Len(body) >= 2 /\ body[1] = "0" /\ body[2] \in {"x", "X"}
             n == IF hex THEN DigitPrefix(Tail(Tail(body)), -1, HexDigits, 16)
                  ELSE DigitPrefix(body, -1, Digits, 10)
         IN IF n < 0 THEN 0 ELSE IF neg THEN 0 - n ELSE n

\* r[i] || '' for the cell at 0-based index i
TextCell(r, i) == IF i + 1 > Len(r) THEN << >> ELSE r[i + 1]

\* variant of ProductionRecord: the Gas variant is chosen by comparing with 'Gas'
ProductionRecordUnlessGas(r, type) ==
    IF type # "Gas"
    THEN [month |-> TextCell(r, 0), oilBBL |-> IntCell(r, 1),
          casingheadGasMCF |-> IntCell(r, 2), wellCount |-> IntCell(r, 3),
          operator |-> TextCell(r, 5), fieldName |-> TextCell(r, 7)]
    ELSE [month |-> TextCell(r, 0), gasMCF |-> IntCell(r, 1),
          condensateBBL |-> IntCell(r, 2), wellCount |-> IntCell(r, 3),
          operator |-> TextCell(r, 5), fieldName |-> TextCell(r, 7)]

\* the object one row is mapped to
ProductionRecord(r, type) ==
    IF type = "Oil"
    THEN [month |-> TextCell(r, 0), oilBBL |-> IntCell(r, 1),
          casingheadGasMCF |-> IntCell(r, 2), wellCount |-> IntCell(r, 3),
          operator |-> TextCell(r, 5), fieldName |-> TextCell(r, 7)]
    ELSE [month |-> TextCell(r, 0), gasMCF |-> IntCell(r, 1),
          condensateBBL |-> IntCell(r, 2), wellCount |-> IntCell(r, 3),
          operator |-> TextCell(r, 5), fieldName |-> TextCell(r, 7)]

\* variant of MonthFilter: every mapped record is kept
MonthFilterAll(rec) == TRUE

\* .filter(r => r.month)
MonthFilter(rec) == rec.month # << >>

\* rows.map(...).filter(r => r.month)
RECURSIVE MapRows(_, _)
MapRows(rows, type) ==
    IF rows = << >> THEN << >>
    ELSE IF MonthFilter(ProductionRecord(Head(rows), type))
         THEN <<ProductionRecord(Head(rows), type)>> \o MapRows(Tail(rows), type)
    ELSE MapRows(Tail(rows), type)

NoDataError == "No production data found"
ParseError == "Could not parse response"

\* variant of GridAbsentError: the document is not searched for "No Matches"
GridAbsentErrorUnchecked(doc) == ParseError

\* the error of the response when the grid is not found
GridAbsentError(doc) == IF IncludesNoMatches(doc) THEN NoDataError ELSE ParseError

\* variant of productionResult: count is the number of rows before the month filter
productionResultRowCount(lease, district, type, doc) ==
    LET g == gridMatch(doc)
    IN IF g = Null
       THEN [lease |-> lease, district |-> district, type |-> type,
             error |-> GridAbsentError(doc), data |-> << >>]
       ELSE [lease |-> lease, district |-> district, type |-> type,
             count |-> Len(RowLoop(g[1])), data |-> MapRows(RowLoop(g[1]), type)]

\* the part of getProduction after the POST resolved with document doc
productionResult(lease, district, type, doc) ==
    LET g == gridMatch(doc)
    IN IF g = Null
       THEN [lease |-> lease, district |-> district, type |-> type,
             error |-> GridAbsentError(doc), data |-> << >>]
       ELSE LET production == MapRows(RowLoop(g[1]), type)
            IN [lease |-> lease, district |-> district, type |-> type,
                count |-> Len(production), data |-> production]

\* variant of ProductionForm: the range ends a year earlier
ProductionFormStale(type, lease, district) ==
    [wellType |-> type, leaseNumber |-> lease, district |-> district,
     startMonth |-> "01", startYear |-> "1993", endMonth |-> "12", endYear |-> "2025",
     submit |-> "Submit"]

\* the form body of the production POST
ProductionForm(type, lease, district) ==
    [wellType |-> type, leaseNumber |-> lease, district |-> district,
     startMonth |-> "01", startYear |-> "1993", endMonth |-> "12", endYear |-> "2026",
     submit |-> "Submit"]

----------------------------------------------------------------------------
(* Production documents of the model *)

\* Longest list of sample rows between the document's prefix and suffix
MaxRows == 2

\* Longest first cell enumerated over the whole cell alphabet
MaxCellLen == 2

CellAlphabet == {"<b>", "&nbsp;", ",", " ", "Message", "1"}

FirstCells == UNION { [1..n -> CellAlphabet] : n \in 0..MaxCellLen }

FullTail ==
    << <<"1", ",", "2", "3", "4">>, <<"<b>", "5", "6", "<b>">>, <<"2">>, <<"x">>,
       <<"O", "P">>, <<"x">>, <<"F", " ", "Y">> >>
OddTail == << <<"&nbsp;">>, <<"x", "7">>, <<"-", "3">> >>
MixedTail == << <<"7", "x">>, <<"0", "x", "F">>, <<"1", "2", ".", "5">>, << >>, <<"O", "P">> >>
CellTails == { << >>, FullTail, OddTail, MixedTail }

JanRow == Row(<< <<"0", "1", "/", "2", "4">> >> \o FullTail)
FebRow == Row(<< <<"<b>", "0", "2", "/", "2", "4", "<b>", " ">> >> \o OddTail)
MessageRow == Row(<< <<"Message", " ", "1">>, <<"x">> >>)
BlankRow == Row(<< <<"&nbsp;">>, <<"9">> >>)
EmptyRow == Row(<< >>)

RowSamples == {JanRow, FebRow, MessageRow, BlankRow, EmptyRow, Piece("text")}

RowLists ==
    UNION { [1..n -> RowSamples] : n \in 0..MaxRows }
    \cup { <<Row(<<c>> \o t)>> : c \in FirstCells, t \in CellTails }

DocPrefixes ==
    { << >>, <<Piece("grid")>>, <<Piece("text"), Piece("grid")>>,
      <<Piece("nomatch"), Piece("grid")>>, <<Piece("endtable"), Piece("text")>> }

DocSuffixes ==
    { << >>, <<Piece("endtable")>>, <<Piece("nomatch")>>,
      <<Piece("endtable"), Piece("nomatch")>>,
      <<Piece("endtable"), Piece("grid"), FebRow, Piece("endtable")>> }

ProductionDocs == { a \o rows \o z : a \in DocPrefixes, rows \in RowLists, z \in DocSuffixes }

WellTypes == {"Oil", "Gas", "Water"}

\* the documents the upstream answers a POST with in the request specification
LeaseFixtures ==
    { << >>, <<BadCode, NoLabel>>, <<OilLease, BadCode, GasLease>>, DenseDoc(MaxCandidates) }

ProductionFixtures ==
    { <<Piece("text")>>, <<Piece("text"), Piece("nomatch")>>,
      <<Piece("grid"), Piece("endtable")>>,
      <<Piece("grid"), JanRow, MessageRow, BlankRow, FebRow, Piece("endtable")>> }

----------------------------------------------------------------------------
(* The handler, one segment per await *)

\* variant of Catch: caught failures are answered as a bad gateway
CatchBadGateway(message) == jr([error |-> message], 502, cors)

\* } catch (e) { return jr({ error: e.message }, 500, cors); }
Catch(message) == jr([error |-> message], CatchStatus, cors)

\* what a segment ends with: a returned Response, or an awaited outbound call
Reply(response) ==
    [response |-> <<response>>, call |-> << >>, session |-> << >>, next |-> "done"]
Await(call, session, next) ==
    [response |-> << >>, call |-> <<call>>, session |-> session, next |-> next]

\* variant of handlerStart: the method is looked at after the two query paths
handlerStartPathFirst(q) ==
    IF q.path = "/search"
    THEN IF nameOf(q) = << >>
         THEN Reply(jr([error |-> "Missing name"], 400, cors))
         ELSE Await(SessionCall, << >>, "awaitSession")
    ELSE IF q.path = "/production"
    THEN IF Falsy(q.lease) \/ Falsy(q.district)
         THEN Reply(jr([error |-> "Missing lease or district"], 400, cors))
         ELSE Await(SessionCall, << >>, "awaitSession")
    ELSE IF q.method = "OPTIONS" THEN Reply(PreflightResponse)
    ELSE Reply(jr([error |-> "Use GET /search?name=X or GET /production?lease=X&district=X&type=Oil"],
                  404, cors))

\* fetch(request) up to its first await
handlerStart(q) ==
    IF q.method = "OPTIONS" THEN Reply(PreflightResponse)
    ELSE IF q.path = "/search"
    THEN IF nameOf(q) = << >>
         THEN Reply(jr([error |-> "Missing name"], 400, cors))
         ELSE Await(SessionCall, << >>, "awaitSession")
    ELSE IF q.path = "/production"
    THEN IF Falsy(q.lease) \/ Falsy(q.district)
         THEN Reply(jr([error |-> "Missing lease or district"], 400, cors))
         ELSE Await(SessionCall, << >>, "awaitSession")
    ELSE Reply(jr([error |-> "Use GET /search?name=X or GET /production?lease=X&district=X&type=Oil"],
                  404, cors))

\* variant of afterGetSession: getProduction posts the form at once
afterGetSessionDirect(q, s) ==
    IF q.path = "/search"
    THEN Await(SubmitCall("leaseSearchSubmitAction.do", s,
                          SearchForm(nameOf(q), searchDistrictOf(q))),
               <<s>>, "awaitSubmit")
    ELSE Await(SubmitCall("quickLeaseSubmitAction.do", s,
                          ProductionForm(typeOf(q), q.lease[1], q.district[1])),
               <<s>>, "awaitSubmit")

\* the call issued once getSession returned s: searchLeases posts the form,
\* getProduction first loads the lease query page
afterGetSession(q, s) ==
    IF q.path = "/search"
    THEN Await(SubmitCall("leaseSearchSubmitAction.do", s,
                          SearchForm(nameOf(q), searchDistrictOf(q))),
               <<s>>, "awaitSubmit")
    ELSE Await(BuilderCall(s), <<s>>, "awaitBuilder")

\* variant of afterSessionFetch: without a session marker the query goes on
\* with an empty Session
afterSessionFetchFallback(q, o) ==
    IF o.failed THEN Reply(Catch(o.message))
    ELSE LET s == getSession(o.reply[1])
         IN IF s.threw THEN afterGetSession(q, [id |-> "", cookie |-> << >>])
            ELSE afterGetSession(q, s.value[1])

\* from the session fetch settling with outcome o to the next await
afterSessionFetch(q, o) ==
    IF o.failed THEN Reply(Catch(o.message))
    ELSE LET s == getSession(o.reply[1])
         IN IF s.threw THEN Reply(Catch(s.message))
            ELSE afterGetSession(q, s.value[1])

\* variant of afterBuilderFetch: a failed fetch of the lease query page is ignored
afterBuilderFetchUnchecked(q, s, o) ==
    Await(SubmitCall("quickLeaseSubmitAction.do", s,
                     ProductionForm(typeOf(q), q.lease[1], q.district[1])),
          <<s>>, "awaitSubmit")

\* getProduction from the lease query page settling to the POST
afterBuilderFetch(q, s, o) ==
    IF o.failed THEN Reply(Catch(o.message))
    ELSE Await(SubmitCall("quickLeaseSubmitAction.do", s,
                          ProductionForm(typeOf(q), q.lease[1], q.district[1])),
               <<s>>, "awaitSubmit")

\* variant of afterSubmitFetch: a lease search without matches is thrown as an error
afterSubmitFetchStrict(q, o) ==
    IF o.failed THEN Reply(Catch(o.message))
    ELSE IF q.path = "/search"
    THEN IF searchResult(nameOf(q), o.reply[1]).count = 0
         THEN Reply(Catch("No leases found"))
         ELSE Reply(jr(searchResult(nameOf(q), o.reply[1]), 200, cors))
    ELSE Reply(jr(productionResult(q.lease[1], q.district[1], typeOf(q), o.reply[1]),
                  200, cors))

\* from the POST settling to the Response
afterSubmitFetch(q, o) ==
    IF o.failed THEN Reply(Catch(o.message))
    ELSE IF q.path = "/search"
    THEN Reply(jr(searchResult(nameOf(q), o.reply[1]), 200, cors))
    ELSE Reply(jr(productionResult(q.lease[1], q.district[1], typeOf(q), o.reply[1]),
                  200, cors))

TransportFailures == { TransportFailure(m) : m \in TransportMessages }
SessionOutcomes == TransportFailures \cup { Delivered(rep) : rep \in SessionReplies }
BuilderOutcomes == TransportFailures \cup { Delivered(<<Piece("text")>>) }
SubmitOutcomes(q) ==
    TransportFailures
    \cup { Delivered(d) : d \in IF q.path = "/search" THEN LeaseFixtures ELSE ProductionFixtures }

----------------------------------------------------------------------------
(* Actions *)

\* request r's handler ends a segment with step
Advance(r, step) ==
    /\ pc' = [pc EXCEPT ![r] = step.next]
    /\ calls' = [calls EXCEPT ![r] = @ \o step.call]
    /\ sess' = [sess EXCEPT ![r] = IF step.session # << >> THEN step.session ELSE @]
    /\ resp' = [resp EXCEPT ![r] = step.response]

\* variant of LocalSession: the Session is read from a binding that all
\* requests share, holding the Session some request acquired
SharedSession(r) ==
    sess[CHOOSE x \in DOMAIN sess : sess[x] # << >> /\ \A y \in DOMAIN sess : sess[y] # << >> => x <= y][1]

\* the `sess` constant of request r's searchLeases / getProduction invocation
LocalSession(r) == sess[r][1]

\* a request drawn from Q arrives and its handler runs to its first await or
\* its return
ReceiveOf(r, Q) ==
    /\ pc[r] = "idle"
    /\ \E q \in Q :
          /\ req' = [req EXCEPT ![r] = <<q>>]
          /\ Advance(r, handlerStart(q))
    /\ UNCHANGED <<outcomes, fxVars>>

\* the session fetch settles with an outcome drawn from O
SessionReplyOf(r, O) ==
    /\ pc[r] = "awaitSession"
    /\ \E o \in O :
          /\ outcomes' = [outcomes EXCEPT ![r] = Append(@, o)]
          /\ Advance(r, afterSessionFetch(req[r][1], o))
    /\ UNCHANGED <<req, fxVars>>

\* the fetch of the lease query page settles with an outcome drawn from O
BuilderReplyOf(r, O) ==
    /\ pc[r] = "awaitBuilder"
    /\ \E o \in O :
          /\ outcomes' = [outcomes EXCEPT ![r] = Append(@, o)]
          /\ Advance(r, afterBuilderFetch(req[r][1], LocalSession(r), o))
    /\ UNCHANGED <<req, fxVars>>

\* the form POST settles with an outcome drawn from O
SubmitReplyOf(r, O) ==
    /\ pc[r] = "awaitSubmit"
    /\ \E o \in O :
          /\ outcomes' = [outcomes EXCEPT ![r] = Append(@, o)]
          /\ Advance(r, afterSubmitFetch(req[r][1], o))
    /\ UNCHANGED <<req, fxVars>>

Receive(r) == ReceiveOf(r, Requests)
SessionReply(r) == SessionReplyOf(r, SessionOutcomes)
BuilderReply(r) == BuilderReplyOf(r, BuilderOutcomes)
SubmitReply(r) == SubmitReplyOf(r, SubmitOutcomes(req[r][1]))

Idle ==
    /\ pc = [r \in Reqs |-> "idle"]
    /\ req = [r \in Reqs |-> << >>]
    /\ sess = [r \in Reqs |-> << >>]
    /\ calls = [r \in Reqs |-> << >>]
    /\ outcomes = [r \in Reqs |-> << >>]
    /\ resp = [r \in Reqs |-> << >>]

Init ==
    /\ Idle
    /\ html = << >>
    /\ wellType = ""
    /\ out = << >>

Next ==
    \/ \E r \in Reqs : Receive(r)
    \/ \E r \in Reqs : SessionReply(r)
    \/ \E r \in Reqs : BuilderReply(r)
    \/ \E r \in Reqs : SubmitReply(r)

Spec == Init /\ [][Next]_vars

----------------------------------------------------------------------------
(* Concurrent requests: the handlers of several requests interleave at their awaits *)

\* Requests in flight at once
NumConcurrent == 2

ConcReqs == 1..NumConcurrent

ConcRequests ==
    { q \in Requests :
         /\ q.method = "GET"
         /\ q.path \in {"/search", "/production"}
         /\ q.name \in {Null, Some(<<"a">>)}
         /\ q.district = Some("08")
         /\ q.lease = Some("26086")
         /\ q.type = Some("Gas")
         /\ q.range = Null
         /\ q.path = "/production" => q.name = Null }

ConcSessionOutcomes ==
    TransportFailures
    \cup { Delivered([cookies |-> c, url |-> Null, body |-> b]) :
              c \in { << >>, <<[name |-> "JSESSIONID", value |-> "A"]>> },
              b \in { << >>, <<Marker("A")>>, <<PlainText, Marker("B")>> } }

ConcSubmitOutcomes(q) ==
    TransportFailures
    \cup { Delivered(IF q.path = "/search"
                     THEN <<OilLease, BadCode, GasLease>>
                     ELSE <<Piece("grid"), JanRow, MessageRow, Piece("endtable")>>) }

InitConc ==
    /\ pc = [r \in ConcReqs |-> "idle"]
    /\ req = [r \in ConcReqs |-> << >>]
    /\ sess = [r \in ConcReqs |-> << >>]
    /\ calls = [r \in ConcReqs |-> << >>]
    /\ outcomes = [r \in ConcReqs |-> << >>]
    /\ resp = [r \in ConcReqs |-> << >>]
    /\ html = << >>
    /\ wellType = ""
    /\ out = << >>

NextConc ==
    \/ \E r \in ConcReqs : ReceiveOf(r, ConcRequests)
    \/ \E r \in ConcReqs : SessionReplyOf(r, ConcSessionOutcomes)
    \/ \E r \in ConcReqs : BuilderReplyOf(r, BuilderOutcomes)
    \/ \E r \in ConcReqs : SubmitReplyOf(r, ConcSubmitOutcomes(req[r][1]))

SpecConc == InitConc /\ [][NextConc]_vars

----------------------------------------------------------------------------
(* Extraction specifications: the extractors applied to every document *)

\* the name a lease search is run for
QueryName == <<"A">>

InitLease ==
    /\ Idle
    /\ html \in LeaseDocs
    /\ wellType = ""
    /\ out = << >>

ExtractLeases ==
    /\ out = << >>
    /\ out' = <<searchResult(QueryName, html)>>
    /\ UNCHANGED <<reqVars, html, wellType>>

SpecLease == InitLease /\ [][ExtractLeases]_vars

InitProd ==
    /\ Idle
    /\ html \in ProductionDocs
    /\ wellType \in WellTypes
    /\ out = << >>

ExtractProduction ==
    /\ out = << >>
    /\ out' = <<productionResult("26086", "08", wellType, html)>>
    /\ UNCHANGED <<reqVars, html, wellType>>

SpecProd == InitProd /\ [][ExtractProduction]_vars

----------------------------------------------------------------------------
(* Repeated extraction: each extractor applied twice to the same document *)

\* where the first extraction loop leaves its matcher: exec returning null
\* resets lastIndex, leaving the loop at the cap keeps it after the last match
RECURSIVE LeaseLoopEnd(_, _, _)
LeaseLoopEnd(doc, lastIndex, leases) ==
    LET at == LeaseExec(doc, lastIndex)
    IN IF at = 0 THEN 1
       ELSE IF ~LeaseLoopGoesOn(leases) THEN at + 1
       ELSE LeaseLoopEnd(doc, at + 1, Append(leases, LeaseRecord(doc[at])))

\* variant of NewRegex: one regex object serves every invocation, so the
\* matcher starts where the previous invocation left it
ReusedRegex(left) == left

\* the regex literal is evaluated inside the function: every invocation gets a
\* new regex object, its lastIndex at the start of the document
NewRegex(left) == 1

\* `const leases = []` / `const rows = []` inside the function: every
\* invocation starts from an empty list, whatever the previous one collected
NewList(left) == << >>

\* searchLeases' extraction in an invocation that follows one which left its
\* matcher at leftIndex and its list as leftList
searchResultAfter(name, doc, leftIndex, leftList) ==
    LET leases == LeaseLoop(doc, NewRegex(leftIndex), NewList(leftList))
    IN [query |-> name, count |-> Len(leases), leases |-> leases]

\* getProduction's extraction in an invocation that follows one which left
\* its row list as leftRows
productionResultAfter(lease, district, type, doc, leftRows) ==
    LET g == gridMatch(doc)
    IN IF g = Null
       THEN [lease |-> lease, district |-> district, type |-> type,
             error |-> GridAbsentError(doc), data |-> << >>]
       ELSE LET production == MapRows(NewList(leftRows) \o RowLoop(g[1]), type)
            IN [lease |-> lease, district |-> district, type |-> type,
                count |-> Len(production), data |-> production]

\* the rows the first invocation of getProduction collected
RowsLeft(doc) == IF gridMatch(doc) = Null THEN << >> ELSE RowLoop(gridMatch(doc)[1])

InitTwice ==
    /\ Idle
    /\ out = << >>
    /\ \/ html \in LeaseDocs /\ wellType = ""
       \/ html \in ProductionDocs /\ wellType \in WellTypes

FirstLeases == wellType = "" /\ ExtractLeases

FirstProduction == wellType # "" /\ ExtractProduction

SecondLeases ==
    /\ wellType = ""
    /\ Len(out) = 1
    /\ out' = Append(out, searchResultAfter(QueryName, html,
                                            LeaseLoopEnd(html, 1, << >>),
                                            out[1].leases))
    /\ UNCHANGED <<reqVars, html, wellType>>

SecondProduction ==
    /\ wellType # ""
    /\ Len(out) = 1
    /\ out' = Append(out, productionResultAfter("26086", "08", wellType, html, RowsLeft(html)))
    /\ UNCHANGED <<reqVars, html, wellType>>

NextTwice == FirstLeases \/ FirstProduction \/ SecondLeases \/ SecondProduction

SpecTwice == InitTwice /\ [][NextTwice]_vars

----------------------------------------------------------------------------
(* Vocabulary of the properties *)

\* the kinds of the outbound calls of request r, in the order issued
CallKinds(r) == [i \in 1..Len(calls[r]) |-> calls[r][i].kind]

\* request r is a query: its handler got past the preflight branch
IsQuery(r) == req[r] # << >> /\ req[r][1].method # "OPTIONS"

\* the session fetch of request r resolved with a reply (no transport failure)
EntryDelivered(r) == Len(outcomes[r]) >= 1 /\ ~outcomes[r][1].failed
EntryReply(r) == outcomes[r][1].reply[1]

\* the three places a session identifier can be read from, as sets of values
HeaderIds(rep) ==
    { rep.cookies[i].value : i \in { j \in 1..Len(rep.cookies) : rep.cookies[j].name = "JSESSIONID" } }
UrlIdSet(rep) == IF rep.url = Null THEN {} ELSE {rep.url[1]}
MarkerIndexes(rep) == { i \in 1..Len(rep.body) : rep.body[i].kind = "marker" }

\* the first session cookie value among the headers
FirstHeaderId(rep) ==
    LET at == CHOOSE i \in 1..Len(rep.cookies) :
                  /\ rep.cookies[i].name = "JSESSIONID"
                  /\ \A j \in 1..(i - 1) : rep.cookies[j].name # "JSESSIONID"
    IN rep.cookies[at].value

\* the first session marker of the body
FirstMarkerId(rep) ==
    LET at == CHOOSE i \in MarkerIndexes(rep) : \A j \in MarkerIndexes(rep) : i <= j
    IN rep.body[at].value

\* no source yields a session identifier
NoSource(rep) == HeaderIds(rep) = {} /\ UrlIdSet(rep) = {} /\ MarkerIndexes(rep) = {}

\* the response of request r, once returned
Answered(r) == resp[r] # << >>
Status(r) == resp[r][1].status
Body(r) == resp[r][1].body

----------------------------------------------------------------------------
(* C1 *)

\* C1: within one request a form POST is issued only after the session fetch
\* resolved and a Session was obtained from it (the POST carries that Session's
\* id and cookie), and when the entry response holds no session identifier the
\* session fetch stays the only outbound call of the request.
C1_SubmitAfterSession ==
    \A r \in Reqs :
       /\ \A i \in 1..Len(calls[r]) :
             calls[r][i].kind = "submit" =>
                /\ i > 1
                /\ calls[r][1].kind = "session"
                /\ EntryDelivered(r)
                /\ sess[r] # << >>
                /\ calls[r][i].id = sess[r][1].id
                /\ calls[r][i].cookie = sess[r][1].cookie
       /\ (EntryDelivered(r) /\ MarkerIndexes(EntryReply(r)) = {}) =>
             /\ CallKinds(r) = <<"session">>
             /\ pc[r] = "done"

\* a request whose POST was issued, and answered
C1_Witness ==
    \E r \in Reqs :
       /\ pc[r] = "done"
       /\ Len(calls[r]) >= 2
       /\ calls[r][Len(calls[r])].kind = "submit"

----------------------------------------------------------------------------
(* C2 *)

\* the name parameter is absent, empty or only blanks
NameMissing(q) == q.name = Null \/ \A i \in 1..Len(q.name[1]) : q.name[1][i] = " "

\* a required parameter of the query is missing
ParamMissing(q) ==
    \/ q.path = "/search" /\ NameMissing(q)
    \/ q.path = "/production" /\ (q.lease = Null \/ q.district = Null)

\* C2: a query with a required parameter missing is answered with status 400 and
\* an error payload, and no outbound call is made for it.
C2_MissingParam ==
    \A r \in Reqs :
       (IsQuery(r) /\ ParamMissing(req[r][1])) =>
          /\ Answered(r)
          /\ Status(r) = 400
          /\ DOMAIN Body(r) = {"error"}
          /\ calls[r] = << >>

\* a search whose name is only blanks was answered
C2_Witness ==
    \E r \in Reqs :
       /\ IsQuery(r)
       /\ req[r][1].path = "/search"
       /\ req[r][1].name = Some(<<" ">>)
       /\ Answered(r)

----------------------------------------------------------------------------
(* C3 *)

\* C3 as stated: when the entry response holds no session identifier in any of
\* its three sources, the request is answered with status 502.
C3_Original ==
    \A r \in Reqs :
       (EntryDelivered(r) /\ NoSource(EntryReply(r))) =>
          (Answered(r) /\ Status(r) = 502)

\* C3 amended: when no Session is obtained from the entry response, the request
\* is answered with status 500, the status of every caught failure, and the
\* payload { error: "No session" }.
C3_NoSessionIs500 ==
    \A r \in Reqs :
       (EntryDelivered(r) /\ sess[r] = << >>) =>
          /\ Answered(r)
          /\ Status(r) = 500
          /\ Body(r) = [error |-> "No session"]

\* an entry response without any session identifier was received
C3_Witness ==
    \E r \in Reqs : EntryDelivered(r) /\ NoSource(EntryReply(r)) /\ Answered(r)

----------------------------------------------------------------------------
(* C4 *)

\* the identifier of the first source that yields one, in the order Set-Cookie
\* header, redirected URL, body marker; Null when none does
FirstSourceId(rep) ==
    IF HeaderIds(rep) # {} THEN Some(FirstHeaderId(rep))
    ELSE IF UrlIdSet(rep) # {} THEN rep.url
    ELSE IF MarkerIndexes(rep) # {} THEN Some(FirstMarkerId(rep))
    ELSE Null

\* C4 as stated: the Session's id is the identifier of the first source, in the
\* order header, URL, body, that yields one; acquisition succeeds when some
\* source yields one and fails with the no-session error only when none does.
C4_Original ==
    \A r \in Reqs :
       EntryDelivered(r) =>
          IF NoSource(EntryReply(r))
          THEN sess[r] = << >> /\ Answered(r) /\ Body(r) = [error |-> "No session"]
          ELSE sess[r] # << >> /\ sess[r][1].id = FirstSourceId(EntryReply(r))[1]

\* C4 amended: the Session's id is the first session marker of the response
\* body and nothing else; the Set-Cookie headers only give the cookie string
\* (the first session cookie, else the body's identifier) and the redirected
\* URL is not consulted; acquisition succeeds exactly when the body holds a
\* marker and fails with the no-session error otherwise.
C4_IdFromBodyOnly ==
    \A r \in Reqs :
       EntryDelivered(r) =>
          IF MarkerIndexes(EntryReply(r)) = {}
          THEN sess[r] = << >> /\ Answered(r) /\ Body(r) = [error |-> "No session"]
          ELSE /\ sess[r] # << >>
               /\ sess[r][1].id = FirstMarkerId(EntryReply(r))
               /\ sess[r][1].cookie =
                     CookieStr(IF HeaderIds(EntryReply(r)) # {}
                               THEN FirstHeaderId(EntryReply(r))
                               ELSE FirstMarkerId(EntryReply(r)))

\* a Session was obtained from a reply whose header, URL and body all carry an
\* identifier, the body's differing from the header's
C4_Witness ==
    \E r \in Reqs :
       /\ EntryDelivered(r)
       /\ sess[r] # << >>
       /\ HeaderIds(EntryReply(r)) # {}
       /\ UrlIdSet(EntryReply(r)) # {}
       /\ FirstHeaderId(EntryReply(r)) # FirstMarkerId(EntryReply(r))

----------------------------------------------------------------------------
(* C5 *)

\* C5: the cookie of every Session returned carries the Session's id.
C5_CookieCarriesId ==
    \A r \in Reqs :
       sess[r] # << >> => sess[r][1].cookie = CookieStr(sess[r][1].id)

----------------------------------------------------------------------------
(* C9 *)

\* the request was answered with the result of its query
Succeeded(r) == IsQuery(r) /\ Answered(r) /\ Status(r) = 200

\* C9 as stated: a successful query made exactly two outbound calls, the
\* session fetch and one form POST, on either path.
C9_Original ==
    \A r \in Reqs : Succeeded(r) => CallKinds(r) = <<"session", "submit">>

\* C9 amended: a successful /search made exactly two outbound calls, the session
\* fetch and one form POST; a successful /production made exactly three, the
\* session fetch, a GET of the lease query page and one form POST.
C9_CallsOnSuccess ==
    \A r \in Reqs :
       Succeeded(r) =>
          /\ req[r][1].path = "/search" => CallKinds(r) = <<"session", "submit">>
          /\ req[r][1].path = "/production" =>
                /\ CallKinds(r) = <<"session", "builder", "submit">>
                /\ calls[r][2].method = "GET"
                /\ calls[r][2].endpoint = "quickLeaseReportBuilderAction.do"
          /\ calls[r][Len(calls[r])].method = "POST"

\* a /production query that succeeded
C9_Witness ==
    \E r \in Reqs : Succeeded(r) /\ req[r][1].path = "/production"

----------------------------------------------------------------------------
(* C10 *)

\* C10: once an outbound call of a request fails at the transport level it is
\* the request's last call, no call is issued twice, and the request is
\* answered with status 500 and the failure's message as its only payload.
C10_NoRetry ==
    \A r \in Reqs :
       /\ \A i \in 1..Len(outcomes[r]) :
             outcomes[r][i].failed =>
                /\ Len(calls[r]) = i
                /\ pc[r] = "done"
                /\ Answered(r)
                /\ Status(r) = 500
                /\ Body(r) = [error |-> outcomes[r][i].message]
       /\ \A i, j \in 1..Len(calls[r]) : calls[r][i].kind = calls[r][j].kind => i = j

\* a request whose second outbound call failed
C10_Witness ==
    \E r \in Reqs : Len(outcomes[r]) = 2 /\ outcomes[r][2].failed /\ Answered(r)

----------------------------------------------------------------------------
(* C6 *)

\* the candidates of the extracted document that the lease pattern matches
MatchIndexes == { i \in 1..Len(html) : LeaseMatches(html[i]) }

\* the index in the document of its k-th match
KthMatch(k) ==
    CHOOSE i \in MatchIndexes : Cardinality({ j \in MatchIndexes : j <= i }) = k

\* C6: the leases returned for a document with N matching option fragments are
\* the first min(N, 50) matches in document order, duplicates kept, so the list
\* is never longer than 50.
C6_FirstFiftyInOrder ==
    out # << >> =>
       LET leases == out[1].leases
           n == Cardinality(MatchIndexes)
       IN /\ Len(leases) = Min(n, 50)
          /\ Len(leases) <= 50
          /\ \A k \in 1..Len(leases) : leases[k] = LeaseRecord(html[KthMatch(k)])

\* a document with more than 50 matches, among them repeated ones and with
\* candidates that do not match in between, was extracted
C6_Witness ==
    /\ out # << >>
    /\ Cardinality(MatchIndexes) > 50
    /\ Cardinality(MatchIndexes) < Len(html)
    /\ out[1].leases[1] = out[1].leases[3]

----------------------------------------------------------------------------
(* C7, C8 *)

\* the document holds a data-grid table: a grid marker with a table end after it
HasGridTable == \E i, j \in 1..Len(html) :
                   i < j /\ html[i].kind = "grid" /\ html[j].kind = "endtable"

HasNoMatchesMarker == \E i \in 1..Len(html) : html[i].kind = "nomatch"

\* C7: without a data-grid table the outcome is the no-data outcome when the
\* document holds the "No Matches" marker and the parse-failure outcome
\* otherwise; both carry an empty data list and their own error text.
C7_NoDataOrParseFailure ==
    (out # << >> /\ ~HasGridTable) =>
       /\ out[1].data = << >>
       /\ "error" \in DOMAIN out[1]
       /\ "count" \notin DOMAIN out[1]
       /\ HasNoMatchesMarker => out[1].error = "No production data found"
       /\ ~HasNoMatchesMarker =>
             /\ out[1].error = "Could not parse response"
             /\ out[1].error # "No production data found"

\* a document with a grid marker that no table end follows, and the marker
C7_Witness ==
    /\ out # << >>
    /\ ~HasGridTable
    /\ HasNoMatchesMarker
    /\ \E i \in 1..Len(html) : html[i].kind = "grid"

\* the located grid: the pieces between the first grid marker and the first
\* table end after it
GridOpen == CHOOSE i \in 1..Len(html) :
               html[i].kind = "grid" /\ \A j \in 1..(i - 1) : html[j].kind # "grid"
GridClose == CHOOSE j \in (GridOpen + 1)..Len(html) :
                /\ html[j].kind = "endtable"
                /\ \A k \in (GridOpen + 1)..(j - 1) : html[k].kind # "endtable"

\* the piece at i is a row whose first cleaned cell is non-empty and holds no
\* message marker
IsDataRow(i) ==
    /\ html[i].kind = "row"
    /\ Len(html[i].cells) > 0
    /\ CleanCell(html[i].cells[1]) # << >>
    /\ \A c \in 1..Len(CleanCell(html[i].cells[1])) :
          CleanCell(html[i].cells[1])[c] # "Message"

DataRowIndexes == { i \in (GridOpen + 1)..(GridClose - 1) : IsDataRow(i) }

\* C8: the records emitted for a located grid are, in row order, exactly the
\* rows whose first cleaned cell is non-empty and holds no message marker; the
\* month of a record is that cell, never empty.
C8_DataRowsOnly ==
    (out # << >> /\ HasGridTable) =>
       LET data == out[1].data
       IN /\ Len(data) = Cardinality(DataRowIndexes)
          /\ out[1].count = Len(data)
          /\ \A k \in 1..Len(data) :
                /\ data[k].month # << >>
                /\ \E i \in DataRowIndexes :
                      /\ Cardinality({ j \in DataRowIndexes : j <= i }) = k
                      /\ data[k].month = CleanCell(html[i].cells[1])
                      /\ data[k] = ProductionRecord(CleanCells(html[i].cells), wellType)

\* a grid with a data row, and a row that is dropped only because its first
\* cell is empty once cleaned
C8_Witness ==
    /\ out # << >>
    /\ HasGridTable
    /\ Len(out[1].data) >= 1
    /\ \E i \in (GridOpen + 1)..(GridClose - 1) :
          /\ html[i].kind = "row"
          /\ Len(html[i].cells) > 0
          /\ html[i].cells[1] # << >>
          /\ CleanCell(html[i].cells[1]) = << >>

----------------------------------------------------------------------------
(* C11 *)

\* the Response of request q processed alone, its outbound calls settling with
\* the outcomes os in order
SoloResponse(q, os) ==
    LET s0 == handlerStart(q)
        s1 == afterSessionFetch(q, os[1])
        s2 == afterBuilderFetch(q, s1.session[1], os[2])
    IN IF s0.next = "done" THEN s0.response
       ELSE IF s1.next = "done" THEN s1.response
       ELSE IF s1.next = "awaitSubmit" THEN afterSubmitFetch(q, os[2]).response
       ELSE IF s2.next = "done" THEN s2.response
       ELSE afterSubmitFetch(q, os[3]).response

\* C11: under every interleaving of the requests in flight, each call a request
\* makes after its session fetch carries the id and the cookie read from the
\* reply to its own session fetch, and the response of each request is the one
\* it gets when processed alone with the same upstream outcomes.
C11_RequestsIndependent ==
    \A r \in DOMAIN pc :
       /\ \A i \in 2..Len(calls[r]) :
             /\ EntryDelivered(r)
             /\ MarkerIndexes(EntryReply(r)) # {}
             /\ calls[r][i].id = FirstMarkerId(EntryReply(r))
             /\ calls[r][i].cookie =
                   CookieStr(IF HeaderIds(EntryReply(r)) # {}
                             THEN FirstHeaderId(EntryReply(r))
                             ELSE FirstMarkerId(EntryReply(r)))
       /\ pc[r] = "done" => resp[r] = SoloResponse(req[r][1], outcomes[r])

\* two requests both answered from a POST, the second one having acquired
\* its own Session after the first acquired a different one
C11_Witness ==
    /\ pc[1] = "done" /\ pc[2] = "done"
    /\ Len(calls[1]) = 3 /\ Len(calls[2]) = 3
    /\ sess[1][1].id # sess[2][1].id
    /\ resp[1][1].status = 200 /\ resp[2][1].status = 200

----------------------------------------------------------------------------
(* C12 *)

\* the POST of request r, a lease search, resolved with a document
SearchDelivered(r) ==
    /\ IsQuery(r)
    /\ req[r][1].path = "/search"
    /\ Len(outcomes[r]) = 2
    /\ ~outcomes[r][2].failed

\* C12: whatever document the lease-search POST resolves with, /search answers
\* with status 200 and a leases list, and the list is empty with count 0 when
\* no fragment of the document matches.
C12_SearchNeverFails ==
    \A r \in DOMAIN pc :
       SearchDelivered(r) =>
          /\ Answered(r)
          /\ Status(r) = 200
          /\ "leases" \in DOMAIN Body(r)
          /\ "error" \notin DOMAIN Body(r)
          /\ (\A i \in 1..Len(outcomes[r][2].reply[1]) :
                 ~LeaseMatches(outcomes[r][2].reply[1][i])) =>
                (Body(r).leases = << >> /\ Body(r).count = 0)

\* a lease search answered from a document that has fragments, none matching
C12_Witness ==
    \E r \in DOMAIN pc :
       /\ SearchDelivered(r)
       /\ Answered(r)
       /\ outcomes[r][2].reply[1] # << >>
       /\ \A i \in 1..Len(outcomes[r][2].reply[1]) : ~LeaseMatches(outcomes[r][2].reply[1][i])

----------------------------------------------------------------------------
(* C13 *)

\* C13: extracting from the same document a second time, leases or production
\* with the same well type, gives the output of the first extraction.
C13_SameOutputTwice == Len(out) = 2 => out[2] = out[1]

\* a lease document extracted twice whose first extraction stopped at the cap,
\* its matcher left in the middle of the document
C13_Witness ==
    /\ Len(out) = 2
    /\ wellType = ""
    /\ Cardinality(MatchIndexes) > 50
    /\ LeaseLoopEnd(html, 1, << >>) > 1

----------------------------------------------------------------------------
(* C14 *)

\* the cleaned cell at 0-based position p of the row at i, << >> when missing
CellAt(i, p) ==
    IF p + 1 > Len(html[i].cells) THEN << >> ELSE CleanCell(html[i].cells[p + 1])

\* s without a leading sign
Unsigned(s) == IF s # << >> /\ s[1] \in {"-", "+"} THEN Tail(s) ELSE s

\* s is an integer numeral: an optional sign and then digits only
IsNumeral(s) == Unsigned(s) # << >> /\ AllIn(Unsigned(s), Digits)

\* the number a sequence of digits of that radix denotes
RECURSIVE Denoted(_, _)
Denoted(s, radix) ==
    IF s = << >> THEN 0
    ELSE Denoted(SubSeq(s, 1, Len(s) - 1), radix) * radix + DigitValue(s[Len(s)])

Signed(s, n) == IF s # << >> /\ s[1] = "-" THEN 0 - n ELSE n

\* the longest prefix of s made of members of set
LeadingRun(s, set) ==
    LET k == CHOOSE n \in 0..Len(s) :
                 /\ \A i \in 1..n : s[i] \in set
                 /\ n < Len(s) => s[n + 1] \notin set
    IN SubSeq(s, 1, k)

\* the integer a cell starts with: hexadecimal after 0x, decimal otherwise; 0
\* when it starts with none
LeadingInteger(s) ==
    LET u == Unsigned(s)
    IN IF Len(u) >= 2 /\ u[1] = "0" /\ u[2] \in {"x", "X"}
       THEN Signed(s, Denoted(LeadingRun(SubSeq(u, 3, Len(u)), HexDigits), 16))
       ELSE Signed(s, Denoted(LeadingRun(u, Digits), 10))

\* the two volumes and the well count of a record, whichever variant it is
Volumes(rec) ==
    IF "oilBBL" \in DOMAIN rec
    THEN <<rec.oilBBL, rec.casingheadGasMCF, rec.wellCount>>
    ELSE <<rec.gasMCF, rec.condensateBBL, rec.wellCount>>

\* the record emitted for the data row at i
RecordOf(i) == out[1].data[Cardinality({ j \in DataRowIndexes : j <= i })]

\* every data row has its record, mapped by position apart from the numbers
MappedByPosition ==
    /\ Len(out[1].data) = Cardinality(DataRowIndexes)
    /\ \A i \in DataRowIndexes :
          /\ RecordOf(i).month = CellAt(i, 0)
          /\ RecordOf(i).operator = CellAt(i, 5)
          /\ RecordOf(i).fieldName = CellAt(i, 7)

\* C14 as stated: each retained row is mapped by position, a numeric cell that
\* is an integer numeral gives that integer, and one that is missing or is not
\* a numeral gives 0; no row is dropped for its numeric cells.
C14_Original ==
    (out # << >> /\ HasGridTable) =>
       /\ MappedByPosition
       /\ \A i \in DataRowIndexes : \A p \in 1..3 :
             Volumes(RecordOf(i))[p] =
                IF IsNumeral(CellAt(i, p))
                THEN Signed(CellAt(i, p), Denoted(Unsigned(CellAt(i, p)), 10))
                ELSE 0

\* C14 amended: each retained row is mapped by position, and a numeric cell
\* gives the integer it starts with (what follows the digits is ignored), or 0
\* when it is missing or starts with no integer; no row is dropped for its
\* numeric cells.
C14_LeadingIntegerOrZero ==
    (out # << >> /\ HasGridTable) =>
       /\ MappedByPosition
       /\ \A i \in DataRowIndexes : \A p \in 1..3 :
             Volumes(RecordOf(i))[p] = LeadingInteger(CellAt(i, p))

\* a record emitted for a row that has a numeric cell which starts with an
\* integer and goes on with other text
C14_Witness ==
    /\ out # << >>
    /\ HasGridTable
    /\ \E i \in DataRowIndexes : \E p \in 1..3 :
          /\ ~IsNumeral(CellAt(i, p))
          /\ Volumes(RecordOf(i))[p] # 0

----------------------------------------------------------------------------
(* C15 *)

NullPlaceholder == <<"n", "u", "l", "l">>

\* C15: a matched fragment whose well-number field is the placeholder null
\* (blanks around it aside, as every field is trimmed) gives a record with an
\* empty wellNumber, and every other well-number field is emitted trimmed.
C15_NullWellNumber ==
    out # << >> =>
       \A k \in 1..Len(out[1].leases) :
          out[1].leases[k].wellNumber =
             IF Trim(html[KthMatch(k)].well) = NullPlaceholder
             THEN << >>
             ELSE Trim(html[KthMatch(k)].well)

\* leases extracted from a document with a null well number, a padded one and
\* one that only starts with null
C15_Witness ==
    /\ out # << >>
    /\ Len(out[1].leases) = Cardinality(MatchIndexes)
    /\ \E i \in MatchIndexes : html[i].well = NullPlaceholder
    /\ \E i \in MatchIndexes : html[i].well = <<" ", "2", " ">>
    /\ \E i \in MatchIndexes : html[i].well = <<"n", "u", "l", "l", "2">>

----------------------------------------------------------------------------
(* C16 *)

\* the form of the production POST of request r, << >> before it is issued
ProductionPost(r) ==
    IF /\ IsQuery(r)
       /\ req[r][1].path = "/production"
       /\ Len(calls[r]) = 3
    THEN calls[r][3].form
    ELSE << >>

DatesOf(form) ==
    [startMonth |-> form.startMonth, startYear |-> form.startYear,
     endMonth |-> form.endMonth, endYear |-> form.endYear]

\* C16 as stated: the date range of the production form is the caller's.
C16_Original ==
    \A r \in DOMAIN pc :
       (ProductionPost(r) # << >> /\ req[r][1].range # Null) =>
          DatesOf(ProductionPost(r)[1]) = req[r][1].range[1]

\* C16 amended: the date range of the production form is the constant 01/1993
\* to 12/2026 fixed in the code, whatever range the caller sends.
C16_FixedRange ==
    \A r \in DOMAIN pc :
       ProductionPost(r) # << >> =>
          DatesOf(ProductionPost(r)[1]) =
             [startMonth |-> "01", startYear |-> "1993", endMonth |-> "12", endYear |-> "2026"]

\* a production POST issued for a caller that sent a date range
C16_Witness ==
    \E r \in DOMAIN pc : ProductionPost(r) # << >> /\ req[r][1].range # Null

----------------------------------------------------------------------------
(* C17 *)

\* the POST of request r, a production query, resolved with a document
ProductionDelivered(r) ==
    /\ ProductionPost(r) # << >>
    /\ Len(outcomes[r]) = 3
    /\ ~outcomes[r][3].failed

\* the type getProduction is called with: the caller's, "Oil" when the caller
\* sends none (or an empty one)
TypeGiven(q) == IF q.type = Null \/ q.type = Some("") THEN "Oil" ELSE q.type[1]

OilFields == {"month", "oilBBL", "casingheadGasMCF", "wellCount", "operator", "fieldName"}
GasFields == {"month", "gasMCF", "condensateBBL", "wellCount", "operator", "fieldName"}

\* C17: the type is forwarded upstream as given, "Oil" by default, and never
\* rejected; the records are of the Oil variant exactly when it is "Oil" and of
\* the Gas variant for every other value.
C17_OilOnlyForOil ==
    \A r \in DOMAIN pc :
       /\ ProductionPost(r) # << >> =>
             ProductionPost(r)[1].wellType = TypeGiven(req[r][1])
       /\ ProductionDelivered(r) =>
             /\ Answered(r)
             /\ Status(r) = 200
             /\ Body(r).type = TypeGiven(req[r][1])
             /\ \A k \in 1..Len(Body(r).data) :
                   DOMAIN Body(r).data[k] =
                      IF TypeGiven(req[r][1]) = "Oil" THEN OilFields ELSE GasFields

\* a production query of a type that is neither Oil nor Gas, answered with records
C17_Witness ==
    \E r \in DOMAIN pc :
       /\ ProductionDelivered(r)
       /\ req[r][1].type = Some("Water")
       /\ Answered(r)
       /\ Len(Body(r).data) >= 1

----------------------------------------------------------------------------
(* C18 *)

\* the body of a response is one of the two error results of getProduction
IsErrorResult(b) == "error" \in DOMAIN b /\ b.error \in {NoDataError, ParseError}

\* C18: a successful /search response has count equal to the length of leases;
\* a successful /production response either has count equal to the length of
\* data, or is a no-data or parse-failure result with an empty data and no count.
C18_CountIsLength ==
    \A r \in DOMAIN pc :
       Succeeded(r) =>
          /\ req[r][1].path = "/search" =>
                /\ {"count", "leases"} \subseteq DOMAIN Body(r)
                /\ Body(r).count = Len(Body(r).leases)
          /\ req[r][1].path = "/production" =>
                /\ "data" \in DOMAIN Body(r)
                /\ \/ /\ "count" \in DOMAIN Body(r)
                      /\ "error" \notin DOMAIN Body(r)
                      /\ Body(r).count = Len(Body(r).data)
                   \/ /\ IsErrorResult(Body(r))
                      /\ "count" \notin DOMAIN Body(r)
                      /\ Body(r).data = << >>

\* a production response whose grid held a row that the month filter dropped
\* next to rows that it kept
C18_Witness ==
    \E r \in DOMAIN pc :
       /\ Succeeded(r)
       /\ req[r][1].path = "/production"
       /\ ProductionDelivered(r)
       /\ BlankRow \in Range(outcomes[r][3].reply[1])
       /\ "count" \in DOMAIN Body(r)
       /\ Body(r).count >= 1

----------------------------------------------------------------------------
(* C19 *)

QueryPaths == {"/search", "/production"}

\* request r is not a query: a preflight, or a path that is not a query path
NotAQuery(r) ==
    req[r] # << >> /\ (req[r][1].method = "OPTIONS" \/ req[r][1].path \notin QueryPaths)

\* C19: a request that is not a query is answered without any outbound call,
\* the unknown path of a non-OPTIONS request with status 404, and every response
\* of the handler, the 400, 404 and 500 ones included, carries the CORS headers.
C19_NoCallsAndCors ==
    \A r \in DOMAIN pc :
       /\ NotAQuery(r) =>
             /\ calls[r] = << >>
             /\ outcomes[r] = << >>
             /\ pc[r] # "start" => Answered(r)
             /\ (Answered(r) /\ req[r][1].method # "OPTIONS") => Status(r) = 404
       /\ Answered(r) => resp[r][1].headers = cors

\* a preflight on a query path that carries every parameter of a query, answered
C19_Witness ==
    \E r \in DOMAIN pc :
       /\ Answered(r)
       /\ req[r][1].method = "OPTIONS"
       /\ req[r][1].path = "/production"
       /\ ~Falsy(req[r][1].lease)
       /\ ~Falsy(req[r][1].district)

====
